---- MODULE Spec2Model ----
(***************************************************************************)
(* A model of the useApi hook of src/src/hooks/useApi.js: one executor     *)
(* instance (one call site of the hook in one mounted view), its React     *)
(* state {data, loading, error}, its cache and abort-controller refs, the  *)
(* execute invocations it has started and the renders of its owning view   *)
(* (specification Spec); of the useForm hook of the same file as the       *)
(* create-post, comment and register forms use it (specification           *)
(* SpecForm); and of the AuthProvider of src/src/context/AuthContext.jsx   *)
(* (specification SpecAuth).                                               *)
(*                                                                         *)
(* React semantics the model relies on:                                    *)
(*  - a setter called with a value that is Object.is-equal to the current  *)
(*    state schedules no render; any other call schedules one (dirty);     *)
(*  - on a render, useCallback returns a new execute whenever one of its   *)
(*    dependencies [url, options, cacheTime] is not identical to the one   *)
(*    of the previous render, and useEffect then runs the previous         *)
(*    effect's cleanup followed by the effect;                             *)
(*  - fetch() given an AbortSignal rejects with an AbortError once the     *)
(*    signal is aborted, and so does the read of the response body.        *)
(***************************************************************************)
EXTENDS Integers, Sequences, FiniteSets, TLC

\* ------------------------------------------------------------- bounds
\* Most execute invocations one instance starts in a behaviour.
MaxCalls == 3
\* The age (Date.now() - timestamp, in instants) up to which the age of a
\* cache entry is told apart; older entries count as of this age.
MaxAge == 2

\* ------------------------------------------------------------- values
\* Endpoints the owning view may pass to execute; the first is the
\* instance's own url argument.
Urls == {"/api/posts/1", "/api/posts/1/comments"}
\* Option objects as insertion-ordered lists of <<property, value>>:
\* {} and {method: 'POST'}.
OptionObjs == {<< >>, << <<"method", "POST">> >>}
\* cacheTime arguments: no caching, and the default 5 * 60 * 1000 ms, which
\* is two instants of the model's clock.
DefaultCacheTime == 2
CacheTimes == {0, DefaultCacheTime}
\* Response statuses of the transport.
Statuses == {200, 404, 500}

NULL == << >>
NoData == 0
NoEntry == [data |-> NoData, age |-> -1]
NoKey == << >>

VARIABLES
    url,          \* the hook's url argument
    options,      \* the hook's options argument (its value on every render)
    immediate,    \* the hook's immediate argument
    cacheTime,    \* the hook's cacheTime argument
    optsStable,   \* TRUE iff the caller passes the identical options object on every render
    mounted,      \* "created" (rendered, effects not yet run), "mounted", "unmounted"
    data,         \* useState: the payload object (named by the invocation that fetched it)
    loading,      \* useState
    error,        \* useState: NULL or an error message
    dirty,        \* a state update is pending a render
    cache,        \* cacheRef.current: cache key -> entry {data, timestamp}, the
                  \* timestamp kept as the entry's age Date.now() - timestamp
    ctlRef,       \* abortControllerRef.current: 0 (null) or the controller of invocation ctlRef
    aborted,      \* the controllers whose signal is aborted
    inv           \* the execute invocations, in the order they started: a pending
                  \* one's closure and position, the last one's origin and result,
                  \* and of the older ones that have returned only the outcome and
                  \* whether a later one started while they were pending

\* The state of one useForm instance and of the page that owns it.
VARIABLES
    page,         \* the page that calls useForm, "none" where no form is looked at
    caller,       \* who calls the handlers: "page", the elements of the page, which
                  \* call none while they are disabled, or "hook", any holder of
                  \* the object useForm returns
    values,       \* useState: field name -> value
    errors,       \* useState: an object, field name -> error, with the keys it has
    touched,      \* useState: an object, field name -> true, with the keys it has
    isSubmitting, \* useState
    submits,      \* the handleSubmit calls in the order they started: where each
                  \* is and what its promise settled to
    calls,        \* the fetch calls the onSubmit callbacks have made
    refetched     \* the number of refetchComments() calls of the onSubmit callbacks

\* The state of the AuthProvider.
VARIABLES
    state,        \* useReducer: {user, token, isLoading, error, isAuthenticated}
    localStorage, \* the items 'token' and 'user' of localStorage, NULL if absent
    authCalls,    \* the login and register calls in the order they started
    checked       \* the provider's on-mount effect has run

config == <<url, options, immediate, cacheTime, optsStable>>
auth == <<state, localStorage, authCalls, checked>>
api == <<config, mounted, data, loading, error, dirty, cache, ctlRef, aborted, inv>>
form == <<page, caller, values, errors, touched, isSubmitting, submits, calls, refetched>>
vars == <<url, options, immediate, cacheTime, optsStable, mounted, data, loading,
          error, dirty, cache, ctlRef, aborted, inv,
          page, caller, values, errors, touched, isSubmitting, submits, calls, refetched,
          state, localStorage, authCalls, checked>>

\* ------------------------------------------------------------- helpers
\* JSON.stringify of an option object: the properties in insertion order.
JSONstringify(o) == <<"{">> \o o \o <<"}">>

\* `${customUrl}-${JSON.stringify(customOptions)}`
CacheKey(u, o) == <<u, "-">> \o JSONstringify(o)

Keys == {CacheKey(u, o) : u \in Urls, o \in OptionObjs}

\* cachedData && Date.now() - cachedData.timestamp < cacheTime
IsFresh_AgeInclusive(entry, ct) == entry # NoEntry /\ entry.age <= ct
IsFresh_Never(entry, ct) == FALSE
IsFresh(entry, ct) == entry # NoEntry /\ entry.age < ct

\* response.ok
ResponseOk(s) == s \in 200..299

\* `HTTP error! status: ${response.status}`: the text and the status in decimal
HttpErrorMessage(s) == <<"HTTP error! status: ", ToString(s)>>
\* the message of the TypeError fetch rejects with when the network fails
NetworkErrorMessage == <<"Failed to fetch">>
\* the message of the SyntaxError response.json() rejects with
ParseErrorMessage == <<"Unexpected token in JSON">>
\* the error of the result returned from the AbortError branch
CancelledReason == <<"Request cancelled">>

InFlight(i) == i \in 1..Len(inv) /\ inv[i].phase # "done"

\* abortControllerRef.current.abort(), when the ref is set. Aborting the
\* controller of a request that has settled changes nothing the hook reads.
Abort_Skip(ab, c) == ab
Abort(ab, c) == IF c # 0 /\ InFlight(c) THEN ab \cup {c} ELSE ab

\* cacheRef.current.delete(cacheKey)
CacheDelete_Skip(c, k) == c
CacheDelete_All(c, k) == [j \in DOMAIN c |-> NoEntry]
CacheDelete(c, k) == [c EXCEPT ![k] = NoEntry]

\* cacheRef.current.set(cacheKey, {data: result, timestamp: Date.now()})
CacheSet(c, k, d) == [c EXCEPT ![k] = [data |-> d, age |-> 0]]

\* What is kept of an invocation that has returned once a later one exists.
Returned(r) == [key |-> NoKey, origin |-> "-", hit |-> FALSE, phase |-> "done",
                outcome |-> r.outcome, ret |-> NoData, status |-> 0, error |-> NULL,
                superseded |-> r.superseded]

\* The invocations s with invocation i having returned as r.
Return(s, i, r) == [s EXCEPT ![i] = IF i = Len(s) THEN r ELSE Returned(r)]

\* The invocations s followed by the new invocation r.
Start(s, r) ==
    [j \in 1..Len(s) |-> IF s[j].phase = "done" THEN Returned(s[j])
                          ELSE [s[j] EXCEPT !.origin = "-", !.superseded = TRUE]]
    \o <<r>>

Invocation(k, origin, hit, ret) ==
    [key |-> k, origin |-> origin, hit |-> hit,
     phase |-> IF hit THEN "done" ELSE "fetching",
     outcome |-> IF hit THEN "success" ELSE "none",
     ret |-> ret, status |-> 0, error |-> NULL, superseded |-> FALSE]

\* ------------------------------------------------------------- execute
\* An execute that leaves the previous request running.
Execute_NoAbort(c, ab, d, u, o, origin) ==
    LET id == Len(inv) + 1
        k == CacheKey(u, o)
        hit == IsFresh(c[k], cacheTime)
    IN  /\ Len(inv) < MaxCalls
        /\ aborted' = ab
        /\ ctlRef' = id
        /\ cache' = c
        /\ IF hit
           THEN /\ data' = c[k].data
                /\ error' = NULL
                /\ loading' = loading
                /\ dirty' = (d \/ data # c[k].data \/ error # NULL)
                /\ inv' = Start(inv, Invocation(k, origin, TRUE, c[k].data))
           ELSE /\ loading' = TRUE
                /\ error' = NULL
                /\ data' = data
                /\ dirty' = (d \/ ~loading \/ error # NULL)
                /\ inv' = Start(inv, Invocation(k, origin, FALSE, NoData))

\* The synchronous part of execute(customUrl, customOptions), up to its
\* return (cache hit) or its first await (fetch issued), run on cache c,
\* aborted signals ab and pending-render flag d.
Execute(c, ab, d, u, o, origin) ==
    LET id == Len(inv) + 1
        k == CacheKey(u, o)
        hit == IsFresh(c[k], cacheTime)
    IN  /\ Len(inv) < MaxCalls
        /\ aborted' = Abort(ab, ctlRef)
        /\ ctlRef' = id
        /\ cache' = c
        /\ IF hit
           THEN /\ data' = c[k].data
                /\ error' = NULL
                /\ loading' = loading
                /\ dirty' = (d \/ data # c[k].data \/ error # NULL)
                /\ inv' = Start(inv, Invocation(k, origin, TRUE, c[k].data))
           ELSE /\ loading' = TRUE
                /\ error' = NULL
                /\ data' = data
                /\ dirty' = (d \/ ~loading \/ error # NULL)
                /\ inv' = Start(inv, Invocation(k, origin, FALSE, NoData))

\* The effect of lines 89-100: execute() when immediate.
Effect(ab, d) ==
    IF immediate
    THEN Execute(cache, ab, d, url, options, "effect")
    ELSE /\ aborted' = ab
         /\ dirty' = d
         /\ UNCHANGED <<data, loading, error, cache, ctlRef, inv>>

\* No provider is looked at: the auth variables stay as they are here.
AuthUnused ==
    /\ localStorage = [token |-> NULL, user |-> NULL]
    /\ state = [user |-> NULL, token |-> NULL, isLoading |-> FALSE, error |-> NULL,
                isAuthenticated |-> FALSE]
    /\ authCalls = << >>
    /\ checked = FALSE

\* No form is looked at: the form variables stay as they are here.
FormUnused ==
    /\ page = "none"
    /\ caller = "none"
    /\ values = << >>
    /\ errors = << >>
    /\ touched = << >>
    /\ isSubmitting = FALSE
    /\ submits = << >>
    /\ calls = << >>
    /\ refetched = 0

\* ------------------------------------------------------------- actions
\* useApi(url, options = {}, immediate = true, cacheTime = 5 * 60 * 1000), the
\* caller passing the same options object on every render or a new one.
UseApi ==
    /\ options = << >>
    /\ immediate \in BOOLEAN
    /\ cacheTime \in CacheTimes
    /\ optsStable \in BOOLEAN

\* usePost(url) == useApi(url, { ...options, method: 'POST' }, false): a new
\* options object on every render, and the default cacheTime.
UsePost ==
    /\ options = << <<"method", "POST">> >>
    /\ immediate = FALSE
    /\ cacheTime = DefaultCacheTime
    /\ optsStable = FALSE

Init ==
    /\ url = "/api/posts/1"
    /\ UseApi \/ UsePost
    /\ mounted = "created"
    /\ data = NoData
    /\ loading = FALSE
    /\ error = NULL
    /\ dirty = FALSE
    /\ cache = [k \in Keys |-> NoEntry]
    /\ ctlRef = 0
    /\ aborted = {}
    /\ inv = << >>
    /\ FormUnused
    /\ AuthUnused

\* The effects of the first render.
Mount ==
    /\ mounted = "created"
    /\ mounted' = "mounted"
    /\ Effect(aborted, FALSE)
    /\ UNCHANGED <<auth, form, config>>

\* A render: execute is a new function unless the options object is the
\* identical one, and then the effect's cleanup and the effect run again.
Commit ==
    /\ IF optsStable
       THEN /\ dirty' = FALSE
            /\ UNCHANGED <<data, loading, error, cache, ctlRef, aborted, inv>>
       ELSE Effect(Abort(aborted, ctlRef), FALSE)
    /\ UNCHANGED <<auth, form, config, mounted>>

\* The render a state update of this instance scheduled.
Render ==
    /\ mounted = "mounted"
    /\ dirty
    /\ Commit

\* A render of the owning view for a reason of its own.
ParentRender ==
    /\ mounted = "mounted"
    /\ ~dirty
    /\ Commit

\* The owning view calls execute(customUrl): customOptions defaults to options.
CallExecute(u) ==
    /\ mounted = "mounted"
    /\ Execute(cache, aborted, dirty, u, options, "execute")
    /\ UNCHANGED <<auth, form, config, mounted>>

\* The owning view calls refetch().
Refetch ==
    /\ mounted = "mounted"
    /\ Execute(CacheDelete(cache, CacheKey(url, options)), aborted, dirty,
               url, options, "refetch")
    /\ UNCHANGED <<auth, form, config, mounted>>

\* The outcomes fetch can settle with for invocation i.
FetchOutcomes_IgnoreSignal(i) == {"response", "failure"}
FetchOutcomes(i) == IF i \in aborted THEN {"abort"} ELSE {"response", "failure"}

\* fetch resolves with a success status: execute goes on to response.json().
RespondOk(i, s) ==
    /\ InFlight(i) /\ inv[i].phase = "fetching"
    /\ "response" \in FetchOutcomes(i)
    /\ ResponseOk(s)
    /\ inv' = [inv EXCEPT ![i].phase = "parsing", ![i].status = s]
    /\ UNCHANGED <<auth, form, config, mounted, data, loading, error, dirty, cache, ctlRef,
                   aborted>>

\* A catch block that also resets data.
Fail_ResetsData(i, s, msg) ==
    /\ error' = msg
    /\ loading' = FALSE
    /\ data' = NoData
    /\ dirty' = TRUE
    /\ inv' = Return(inv, i, [inv[i] EXCEPT !.phase = "done", !.outcome = "error",
                                             !.status = s, !.error = msg])
    /\ UNCHANGED <<auth, form, config, mounted, cache, ctlRef, aborted>>

\* A catch block that records the error but leaves loading set.
Fail_KeepsLoading(i, s, msg) ==
    /\ error' = msg
    /\ dirty' = (dirty \/ error # msg)
    /\ inv' = Return(inv, i, [inv[i] EXCEPT !.phase = "done", !.outcome = "error",
                                             !.status = s, !.error = msg])
    /\ UNCHANGED <<auth, form, config, mounted, data, loading, cache, ctlRef, aborted>>

\* A catch block that throws the error on to the caller.
Fail_Rethrows(i, s, msg) ==
    /\ inv' = Return(inv, i, [inv[i] EXCEPT !.phase = "done", !.outcome = "thrown",
                                             !.status = s, !.error = msg])
    /\ UNCHANGED <<auth, form, config, mounted, data, loading, error, dirty, cache, ctlRef, aborted>>

\* catch (err), err not an AbortError: setError(err.message); setLoading(false).
Fail(i, s, msg) ==
    /\ error' = msg
    /\ loading' = FALSE
    /\ dirty' = (dirty \/ error # msg \/ loading)
    /\ inv' = Return(inv, i, [inv[i] EXCEPT !.phase = "done", !.outcome = "error",
                                             !.status = s, !.error = msg])
    /\ UNCHANGED <<auth, form, config, mounted, data, cache, ctlRef, aborted>>

\* fetch resolves with a non-success status: execute throws the HTTP error.
RespondError(i, s) ==
    /\ InFlight(i) /\ inv[i].phase = "fetching"
    /\ "response" \in FetchOutcomes(i)
    /\ ~ResponseOk(s)
    /\ Fail(i, s, HttpErrorMessage(s))

\* fetch rejects: the network failed.
NetworkFail(i) ==
    /\ InFlight(i) /\ inv[i].phase = "fetching"
    /\ "failure" \in FetchOutcomes(i)
    /\ Fail(i, 0, NetworkErrorMessage)

\* response.json() rejects: the body is no JSON.
ParseFail(i) ==
    /\ InFlight(i) /\ inv[i].phase = "parsing"
    /\ "failure" \in FetchOutcomes(i)
    /\ Fail(i, inv[i].status, ParseErrorMessage)

\* A success path that leaves loading set.
ParseOk_NoLoadingReset(i) ==
    /\ InFlight(i) /\ inv[i].phase = "parsing"
    /\ "response" \in FetchOutcomes(i)
    /\ cache' = CacheSet(cache, inv[i].key, i)
    /\ data' = i
    /\ dirty' = TRUE
    /\ inv' = Return(inv, i, [inv[i] EXCEPT !.phase = "done", !.outcome = "success",
                                             !.ret = i])
    /\ UNCHANGED <<auth, form, config, mounted, loading, error, ctlRef, aborted>>

\* response.json() resolves: the result is cached and becomes data.
ParseOk(i) ==
    /\ InFlight(i) /\ inv[i].phase = "parsing"
    /\ "response" \in FetchOutcomes(i)
    /\ cache' = CacheSet(cache, inv[i].key, i)
    /\ data' = i
    /\ loading' = FALSE
    /\ dirty' = TRUE
    /\ inv' = Return(inv, i, [inv[i] EXCEPT !.phase = "done", !.outcome = "success",
                                             !.ret = i])
    /\ UNCHANGED <<auth, form, config, mounted, error, ctlRef, aborted>>

\* An AbortError handled like any other error.
Cancelled_RecordsError(i) ==
    /\ InFlight(i)
    /\ "abort" \in FetchOutcomes(i)
    /\ error' = CancelledReason
    /\ loading' = FALSE
    /\ dirty' = TRUE
    /\ inv' = Return(inv, i, [inv[i] EXCEPT !.phase = "done", !.outcome = "cancelled",
                                             !.error = CancelledReason])
    /\ UNCHANGED <<auth, form, config, mounted, data, cache, ctlRef, aborted>>

\* fetch or response.json() rejects with an AbortError: nothing is updated.
Cancelled(i) ==
    /\ InFlight(i)
    /\ "abort" \in FetchOutcomes(i)
    /\ inv' = Return(inv, i, [inv[i] EXCEPT !.phase = "done", !.outcome = "cancelled",
                                             !.error = CancelledReason])
    /\ UNCHANGED <<auth, form, config, mounted, data, loading, error, dirty, cache, ctlRef,
                   aborted>>

\* A teardown whose cleanup aborts nothing.
Unmount_NoCleanup ==
    /\ mounted = "mounted"
    /\ mounted' = "unmounted"
    /\ UNCHANGED <<auth, form, config, data, loading, error, dirty, cache, ctlRef, aborted, inv>>

\* The owning view is destroyed: the last effect's cleanup runs.
Unmount ==
    /\ mounted = "mounted"
    /\ mounted' = "unmounted"
    /\ aborted' = Abort(aborted, ctlRef)
    /\ UNCHANGED <<auth, form, config, data, loading, error, dirty, cache, ctlRef, inv>>

\* Time passes: every cache entry is an instant older.
Tick ==
    /\ \E k \in Keys : cache[k] # NoEntry /\ cache[k].age < MaxAge
    /\ cache' = [k \in Keys |->
                    IF cache[k] # NoEntry /\ cache[k].age < MaxAge
                    THEN [cache[k] EXCEPT !.age = @ + 1]
                    ELSE cache[k]]
    /\ UNCHANGED <<auth, form, config, mounted, data, loading, error, dirty, ctlRef, aborted, inv>>

Next ==
    \/ Mount
    \/ Render
    \/ ParentRender
    \/ \E u \in Urls : CallExecute(u)
    \/ Refetch
    \/ \E i \in 1..MaxCalls, s \in Statuses : RespondOk(i, s)
    \/ \E i \in 1..MaxCalls, s \in Statuses : RespondError(i, s)
    \/ \E i \in 1..MaxCalls : NetworkFail(i)
    \/ \E i \in 1..MaxCalls : ParseFail(i)
    \/ \E i \in 1..MaxCalls : ParseOk(i)
    \/ \E i \in 1..MaxCalls : Cancelled(i)
    \/ Unmount
    \/ Tick

Spec == Init /\ [][Next]_vars

\* ------------------------------------------------------------- AuthContext
\* The AuthProvider of src/src/context/AuthContext.jsx: its reducer state,
\* the two items it keeps in localStorage and its login and register calls.
\* A token, a user and a message are lists of pieces as above, null is NULL,
\* and an item localStorage does not have reads as null.

\* Most login and register calls in a behaviour.
MaxRequests == 2

\* What the server sends on success: data.user and data.token.
Users == {<<"ann">>}
Tokens == {<<"t1">>, <<"t2">>}
\* What the app may find in localStorage when it loads: nothing, or the
\* token of an earlier session with its user, with a text that is not JSON
\* or with no user.
StoredToken == <<"t0">>
NotJSON == <<"undefined">>

\* JSON.stringify(user) and JSON.parse(text); "SyntaxError" stands for the
\* throw of JSON.parse.
SyntaxError == <<"SyntaxError">>
JSONstringifyUser(u) == <<"{">> \o u \o <<"}">>
JSONparse(text) ==
    IF text = <<"null">> THEN NULL
    ELSE IF Len(text) >= 2 /\ Head(text) = "{" /\ text[Len(text)] = "}"
    THEN SubSeq(text, 2, Len(text) - 1)
    ELSE SyntaxError

InitialStorages ==
    {[token |-> NULL, user |-> NULL]}
    \cup {[token |-> StoredToken, user |-> u] :
            u \in {NULL, NotJSON} \cup {JSONstringifyUser(x) : x \in Users}}

\* initialState, lines 16-22, given localStorage at load.
InitialState(ls) ==
    [user |-> NULL, token |-> ls.token, isLoading |-> FALSE, error |-> NULL,
     isAuthenticated |-> FALSE]

\* authReducer, lines 25-73.
AuthReducer_FailureDropsUser(s, type, payload) ==
    CASE type \in {"LOGIN_START", "REGISTER_START"} ->
           [s EXCEPT !.isLoading = TRUE, !.error = NULL]
      [] type \in {"LOGIN_SUCCESS", "REGISTER_SUCCESS"} ->
           [s EXCEPT !.user = payload.user, !.token = payload.token,
                     !.isLoading = FALSE, !.error = NULL, !.isAuthenticated = TRUE]
      [] type \in {"LOGIN_FAILURE", "REGISTER_FAILURE"} ->
           [s EXCEPT !.isLoading = FALSE, !.error = payload, !.user = NULL]
      [] type = "LOGOUT" ->
           [s EXCEPT !.user = NULL, !.token = NULL, !.isLoading = FALSE,
                     !.error = NULL, !.isAuthenticated = FALSE]
      [] type = "CLEAR_ERROR" ->
           [s EXCEPT !.error = NULL]
      [] OTHER -> s
AuthReducer(s, type, payload) ==
    CASE type \in {"LOGIN_START", "REGISTER_START"} ->
           [s EXCEPT !.isLoading = TRUE, !.error = NULL]
      [] type \in {"LOGIN_SUCCESS", "REGISTER_SUCCESS"} ->
           [s EXCEPT !.user = payload.user, !.token = payload.token,
                     !.isLoading = FALSE, !.error = NULL, !.isAuthenticated = TRUE]
      [] type \in {"LOGIN_FAILURE", "REGISTER_FAILURE"} ->
           [s EXCEPT !.isLoading = FALSE, !.error = payload]
      [] type = "LOGOUT" ->
           [s EXCEPT !.user = NULL, !.token = NULL, !.isLoading = FALSE,
                     !.error = NULL, !.isAuthenticated = FALSE]
      [] type = "CLEAR_ERROR" ->
           [s EXCEPT !.error = NULL]
      [] OTHER -> s

\* The action types and the `new Error` message of login and of register.
StartType(kind) == IF kind = "login" THEN "LOGIN_START" ELSE "REGISTER_START"
SuccessType(kind) == IF kind = "login" THEN "LOGIN_SUCCESS" ELSE "REGISTER_SUCCESS"
FailureType(kind) == IF kind = "login" THEN "LOGIN_FAILURE" ELSE "REGISTER_FAILURE"
NotOkMessage(kind) == IF kind = "login" THEN <<"Login failed">> ELSE <<"Registration failed">>

\* A login or register call: it awaits fetch ("fetching"), then
\* response.json() ("parsing"), and has returned when "done"; stale tells
\* that logout has been called since it started.
AuthCall(kind) == [kind |-> kind, phase |-> "fetching", success |-> FALSE, stale |-> FALSE]

\* The app has loaded: the provider has rendered with initialState.
InitAuth ==
    /\ localStorage \in InitialStorages
    /\ state = InitialState(localStorage)
    /\ authCalls = << >>
    /\ checked = FALSE
    /\ FormUnused
    /\ url = "/api/posts/1"
    /\ UseApi /\ immediate /\ cacheTime = DefaultCacheTime /\ ~optsStable
    /\ mounted = "created"
    /\ data = NoData
    /\ loading = FALSE
    /\ error = NULL
    /\ dirty = FALSE
    /\ cache = [k \in Keys |-> NoEntry]
    /\ ctlRef = 0
    /\ aborted = {}
    /\ inv = << >>

\* The effect of lines 92-115, run once after the first render.
CheckAuthStatus ==
    /\ ~checked
    /\ checked' = TRUE
    /\ LET token == localStorage.token
           user == JSONparse(IF localStorage.user # NULL
                             THEN localStorage.user ELSE <<"null">>)
       IN  IF token = NULL
           THEN UNCHANGED <<state, localStorage>>
           ELSE IF user = SyntaxError
           THEN /\ localStorage' = [token |-> NULL, user |-> NULL]
                /\ UNCHANGED state
           ELSE IF user # NULL
           THEN /\ state' = AuthReducer(state, "LOGIN_SUCCESS",
                                        [user |-> user, token |-> token])
                /\ UNCHANGED localStorage
           ELSE UNCHANGED <<state, localStorage>>
    /\ UNCHANGED <<api, form, authCalls>>

\* login(credentials), lines 118-129, and register(userData), lines 157-168,
\* up to the await of fetch.
StartAuthCall(kind) ==
    /\ Len(authCalls) < MaxRequests
    /\ state' = AuthReducer(state, StartType(kind), NULL)
    /\ authCalls' = Append(authCalls, AuthCall(kind))
    /\ UNCHANGED <<api, form, localStorage, checked>>
Login ==
    /\ checked
    /\ StartAuthCall("login")
Register ==
    /\ checked
    /\ StartAuthCall("register")

\* Call i returns {success: false, error: message} from its catch block.
AuthFail(i, message) ==
    /\ state' = AuthReducer(state, FailureType(authCalls[i].kind), message)
    /\ authCalls' = [authCalls EXCEPT ![i].phase = "done"]
    /\ UNCHANGED <<api, form, localStorage, checked>>

\* fetch of call i resolves with an ok response: the call goes on to
\* response.json().
AuthResponseOk(i) ==
    /\ i \in 1..Len(authCalls) /\ authCalls[i].phase = "fetching"
    /\ authCalls' = [authCalls EXCEPT ![i].phase = "parsing"]
    /\ UNCHANGED <<api, form, state, localStorage, checked>>

\* fetch of call i resolves with a response that is not ok.
AuthResponseNotOk(i) ==
    /\ i \in 1..Len(authCalls) /\ authCalls[i].phase = "fetching"
    /\ AuthFail(i, NotOkMessage(authCalls[i].kind))

\* fetch of call i rejects.
AuthFetchRejects(i) ==
    /\ i \in 1..Len(authCalls) /\ authCalls[i].phase = "fetching"
    /\ AuthFail(i, NetworkErrorMessage)

\* response.json() of call i rejects.
AuthParseFails(i) ==
    /\ i \in 1..Len(authCalls) /\ authCalls[i].phase = "parsing"
    /\ AuthFail(i, ParseErrorMessage)

\* response.json() of call i resolves with {user: u, token: t}: lines 135-146
\* and 174-185.
AuthSucceeds(i, u, t) ==
    /\ i \in 1..Len(authCalls) /\ authCalls[i].phase = "parsing"
    /\ localStorage' = [token |-> t, user |-> JSONstringifyUser(u)]
    /\ state' = AuthReducer(state, SuccessType(authCalls[i].kind), [user |-> u, token |-> t])
    /\ authCalls' = [authCalls EXCEPT ![i].phase = "done", ![i].success = TRUE]
    /\ UNCHANGED <<api, form, checked>>

\* logout(), lines 196-200, called by the navigation bar's handleLogout,
\* whose buttons are rendered while isAuthenticated.
Logout ==
    /\ checked
    /\ state.isAuthenticated
    /\ localStorage' = [token |-> NULL, user |-> NULL]
    /\ state' = AuthReducer(state, "LOGOUT", NULL)
    /\ authCalls' = [i \in 1..Len(authCalls) |-> [authCalls[i] EXCEPT !.stale = TRUE]]
    /\ UNCHANGED <<api, form, checked>>

\* clearError(), lines 203-205.
ClearError ==
    /\ checked
    /\ state' = AuthReducer(state, "CLEAR_ERROR", NULL)
    /\ UNCHANGED <<api, form, localStorage, authCalls, checked>>

NextAuth ==
    \/ CheckAuthStatus
    \/ Login
    \/ Register
    \/ \E i \in 1..MaxRequests : AuthResponseOk(i)
    \/ \E i \in 1..MaxRequests : AuthResponseNotOk(i)
    \/ \E i \in 1..MaxRequests : AuthFetchRejects(i)
    \/ \E i \in 1..MaxRequests : AuthParseFails(i)
    \/ \E i \in 1..MaxRequests, u \in Users, t \in Tokens : AuthSucceeds(i, u, t)
    \/ Logout
    \/ ClearError

SpecAuth == InitAuth /\ [][NextAuth]_vars

\* ------------------------------------------------------------- useForm
\* The useForm hook (src/src/hooks/useApi.js, lines 140-303) as three pages
\* use it: the create-post form of CreatePost.jsx, the comment form of
\* PostDetails.jsx and the register form. JavaScript values are tagged with their type, a string
\* being the sequence of its pieces: a text typed into an input is written
\* character by character, so that Len is its length; a message of the
\* code is one piece.
Undefined == [t |-> "undefined"]
Str(s) == [t |-> "string", s |-> s]
Bool(b) == [t |-> "boolean", b |-> b]
Num(n) == [t |-> "number", n |-> n]
EmptyString == Str(<< >>)
\* what a call of a method the value does not have throws
TypeError == [t |-> "throw", name |-> "TypeError"]

\* the truth value of v in a condition
Truthy(v) ==
    CASE v.t = "string" -> v.s # << >>
      [] v.t = "boolean" -> v.b
      [] v.t = "number" -> v.n # 0
      [] v.t \in {"regexp", "function"} -> TRUE
      [] OTHER -> FALSE

Whitespace == {" "}
RECURSIVE TrimStart(_)
TrimStart(s) == IF s # << >> /\ Head(s) \in Whitespace THEN TrimStart(Tail(s)) ELSE s
RECURSIVE TrimEnd(_)
TrimEnd(s) ==
    IF s # << >> /\ s[Len(s)] \in Whitespace
    THEN TrimEnd(SubSeq(s, 1, Len(s) - 1))
    ELSE s
\* String.prototype.trim
Trim(s) == TrimEnd(TrimStart(s))

\* obj[k], {...obj, [k]: v} and {} for an object kept as a function on its keys
Get(obj, k) == IF k \in DOMAIN obj THEN obj[k] ELSE Undefined
Put(obj, k, v) == [x \in DOMAIN obj \cup {k} |-> IF x = k THEN v ELSE obj[x]]
EmptyObject == << >>

\* Most handleSubmit calls in a behaviour.
MaxSubmits == 2

Pages == {"CreatePost", "PostDetails", "Register"}

\* The first argument of useForm.
InitialValues(p) ==
    IF p = "CreatePost"
    THEN [title |-> EmptyString, content |-> EmptyString, category |-> EmptyString,
          tags |-> EmptyString, isPublished |-> Bool(TRUE)]
    ELSE IF p = "PostDetails"
    THEN [content |-> EmptyString]
    ELSE [username |-> EmptyString, email |-> EmptyString, password |-> EmptyString,
          confirmPassword |-> EmptyString, agreeToTerms |-> Bool(FALSE)]

\* A regular expression and a validate function of a schema, by name.
RegExp(name) == [t |-> "regexp", re |-> name]
Function(name) == [t |-> "function", f |-> name]

\* The second argument of useForm.
ValidationSchema(p) ==
    IF p = "CreatePost"
    THEN [title |-> [required |-> Str(<<"Title is required">>),
                     minLength |-> Num(5), maxLength |-> Num(200)],
          content |-> [required |-> Str(<<"Content is required">>),
                       minLength |-> Num(10)],
          category |-> [required |-> Str(<<"Please select a category">>)]]
    ELSE IF p = "PostDetails"
    THEN [content |-> [required |-> Str(<<"Comment cannot be empty">>),
                       minLength |-> Num(2)]]
    ELSE [username |-> [required |-> Str(<<"Username is required">>),
                        minLength |-> Num(3), maxLength |-> Num(20),
                        pattern |-> RegExp("username"),
                        validate |-> Function("username")],
          email |-> [required |-> Str(<<"Email is required">>),
                     pattern |-> RegExp("email"), validate |-> Function("email")],
          password |-> [required |-> Str(<<"Password is required">>),
                        minLength |-> Num(8), validate |-> Function("password")],
          confirmPassword |-> [required |-> Str(<<"Please confirm your password">>),
                               validate |-> Function("confirmPassword")],
          agreeToTerms |->
              [required |-> Str(<<"You must agree to the terms and conditions">>)]]

\* The third argument of useForm: CreatePost passes none (the default null),
\* PostDetails the callback that posts the comment, Register the one that
\* calls register.
NoOnSubmit == "null"
OnSubmit(p) ==
    IF p = "CreatePost" THEN NoOnSubmit
    ELSE IF p = "PostDetails" THEN "postComment"
    ELSE "register"

\* The url argument of the page's hook: usePost('/api/posts') of CreatePost,
\* useApi(`/api/posts/${id}/comments`) of PostDetails; Register has no
\* instance of the hook and its url is the one register fetches.
PageUrl(p) ==
    IF p = "CreatePost" THEN "/api/posts"
    ELSE IF p = "PostDetails" THEN "/api/posts/1/comments"
    ELSE "/api/auth/register"

\* Texts typed into the inputs: empty, blank, too short, long enough, too long.
Text(n) == [i \in 1..n |-> "x"]
TitleTexts ==
    {<< >>, <<" ", " ">>, Text(ValidationSchema("CreatePost").title.minLength.n - 1),
     <<"T", "i", "t", "l", "e">>,
     Text(ValidationSchema("CreatePost").title.maxLength.n + 1)}
ContentTexts ==
    {<< >>, <<"d", "r", "a", "f", "t">>,
     Text(ValidationSchema("CreatePost").content.minLength.n)}
CategoryTexts == {<< >>, <<"t", "e", "c", "h">>}
TagTexts == {<< >>, <<"j", "s">>}
CommentTexts == {<< >>, <<" ">>, <<"k">>, <<"o", "k">>}
UsernameTexts == {<< >>, <<"a", "n", "n">>, <<"a", " ", "b">>}
EmailTexts == {<< >>, <<"a", "@", "b">>, <<"a", "@", "b", ".", "c">>}
PasswordTexts ==
    {<< >>, <<"P", "a", "s", "s", "w", "0", "r", "d">>,
     <<"p", "a", "s", "s", "w", "o", "r", "d">>}
ConfirmTexts == {<< >>, <<"P", "a", "s", "s", "w", "0", "r", "d">>}

\* The handleChange(name, value) calls the inputs of the page make.
Inputs(p) ==
    IF p = "CreatePost"
    THEN {<<"title", Str(x)>> : x \in TitleTexts}
         \cup {<<"content", Str(x)>> : x \in ContentTexts}
         \cup {<<"category", Str(x)>> : x \in CategoryTexts}
         \cup {<<"tags", Str(x)>> : x \in TagTexts}
         \cup {<<"isPublished", Bool(b)>> : b \in BOOLEAN}
    ELSE IF p = "PostDetails"
    THEN {<<"content", Str(x)>> : x \in CommentTexts}
    ELSE {<<"username", Str(x)>> : x \in UsernameTexts}
         \cup {<<"email", Str(x)>> : x \in EmailTexts}
         \cup {<<"password", Str(x)>> : x \in PasswordTexts}
         \cup {<<"confirmPassword", Str(x)>> : x \in ConfirmTexts}
         \cup {<<"agreeToTerms", Bool(b)>> : b \in BOOLEAN}

\* The fields whose input has the onBlur of getFieldProps.
BlurFields(p) ==
    IF p = "CreatePost" THEN {"title", "category", "tags", "content"}
    ELSE IF p = "PostDetails" THEN {}
    ELSE {"username", "email", "password", "confirmPassword"}

Lower == {"a", "b", "c", "d", "e", "f", "g", "h", "i", "j", "k", "l", "m",
          "n", "o", "p", "q", "r", "s", "t", "u", "v", "w", "x", "y", "z"}
Upper == {"A", "B", "C", "D", "E", "F", "G", "H", "I", "J", "K", "L", "M",
          "N", "O", "P", "Q", "R", "S", "T", "U", "V", "W", "X", "Y", "Z"}
Digit == {"0", "1", "2", "3", "4", "5", "6", "7", "8", "9"}

\* regexp.test(s) for the regular expressions of the schemas:
\* /^[a-zA-Z0-9_]+$/, /^[^\s@]+@[^\s@]+\.[^\s@]+$/ and
\* /(?=.*[a-z])(?=.*[A-Z])(?=.*\d)/.
Test(regexp, s) ==
    CASE regexp.re = "username" ->
           /\ s # << >>
           /\ \A k \in 1..Len(s) : s[k] \in Lower \cup Upper \cup Digit \cup {"_"}
      [] regexp.re = "email" ->
           \E i \in 2..Len(s), j \in 1..Len(s) :
              /\ s[i] = "@" /\ s[j] = "." /\ i + 1 < j /\ j < Len(s)
              /\ \A k \in (1..Len(s)) \ {i} : s[k] \notin Whitespace \cup {"@"}
      [] regexp.re = "password" ->
           /\ \E k \in 1..Len(s) : s[k] \in Lower
           /\ \E k \in 1..Len(s) : s[k] \in Upper
           /\ \E k \in 1..Len(s) : s[k] \in Digit

\* rules.validate(value, values) for the validate functions of the schemas
\* (the values they are given are strings).
Validate(function, value, vals) ==
    CASE function.f = "username" ->
           IF Truthy(value) /\ ~Test(RegExp("username"), value.s)
           THEN Str(<<"Username can only contain letters, numbers, and underscores">>)
           ELSE EmptyString
      [] function.f = "email" ->
           IF Truthy(value) /\ ~Test(RegExp("email"), value.s)
           THEN Str(<<"Please enter a valid email address">>)
           ELSE EmptyString
      [] function.f = "password" ->
           IF Truthy(value) /\ Len(value.s) < 8
           THEN Str(<<"Password must be at least 8 characters long">>)
           ELSE IF Truthy(value) /\ ~Test(RegExp("password"), value.s)
           THEN Str(<<"Password must contain at least one uppercase letter, one lowercase letter, and one number">>)
           ELSE EmptyString
      [] function.f = "confirmPassword" ->
           IF value # Get(vals, "password")
           THEN Str(<<"Passwords do not match">>)
           ELSE EmptyString

\* validateField(name, value), vals being the values of its closure: '' or
\* the error of the first rule that fails, or the TypeError of value.trim().
ValidateField(schema, name, value, vals) ==
    LET rules == Get(schema, name)
        required == Get(rules, "required")
        minLength == Get(rules, "minLength")
        maxLength == Get(rules, "maxLength")
        pattern == Get(rules, "pattern")
        validate == Get(rules, "validate")
    IN  IF rules = Undefined THEN EmptyString
        ELSE IF Truthy(required) /\ ~Truthy(value)
        THEN (IF required = Bool(TRUE) THEN Str(<<name, " is required">>) ELSE required)
        ELSE IF Truthy(required) /\ value.t # "string"
        THEN TypeError
        ELSE IF Truthy(required) /\ Trim(value.s) = << >>
        THEN (IF required = Bool(TRUE) THEN Str(<<name, " is required">>) ELSE required)
        ELSE IF /\ Truthy(minLength) /\ Truthy(value)
                /\ value.t = "string" /\ Len(value.s) < minLength.n
        THEN (IF minLength = Bool(TRUE)
              THEN Str(<<name, " must be at least true characters">>)
              ELSE minLength)
        ELSE IF /\ Truthy(maxLength) /\ Truthy(value)
                /\ value.t = "string" /\ Len(value.s) > maxLength.n
        THEN (IF maxLength = Bool(TRUE)
              THEN Str(<<name, " must be no more than true characters">>)
              ELSE maxLength)
        ELSE IF /\ Truthy(pattern) /\ Truthy(value)
                /\ value.t = "string" /\ ~Test(pattern, value.s)
        THEN (IF pattern = Bool(TRUE)
              THEN Str(<<name, " format is invalid">>)
              ELSE pattern)
        ELSE IF validate.t = "function" /\ Truthy(Validate(validate, value, vals))
        THEN Validate(validate, value, vals)
        ELSE EmptyString

\* validateForm: the fields of the schema whose validation gives an error,
\* each with its error.
NewErrors(schema, v) ==
    [f \in {g \in DOMAIN schema : Truthy(ValidateField(schema, g, Get(v, g), v))}
       |-> ValidateField(schema, f, Get(v, f), v)]
\* a validateField call of validateForm throws
ValidationThrows(schema, v) ==
    \E f \in DOMAIN schema : ValidateField(schema, f, Get(v, f), v) = TypeError

\* const isValid = Object.keys(errors).length === 0
IsValid(e) == Cardinality(DOMAIN e) = 0
isValid == IsValid(errors)

\* The disabled attribute of the page's submit button, and of its inputs.
SubmitDisabled ==
    IF page = "CreatePost"
    THEN isSubmitting \/ loading \/ ~isValid
    ELSE IF page = "PostDetails"
    THEN isSubmitting \/ ~Truthy(Str(Trim(values.content.s)))
    ELSE isSubmitting \/ state.isLoading
InputDisabled == isSubmitting

\* A page with a form has been rendered; its hook instance did not act yet.
InitForm ==
    /\ page \in Pages
    /\ caller \in {"page", "hook"}
    /\ values = InitialValues(page)
    /\ errors = EmptyObject
    /\ touched = EmptyObject
    /\ isSubmitting = FALSE
    /\ submits = << >>
    /\ calls = << >>
    /\ refetched = 0
    /\ AuthUnused
    /\ url = PageUrl(page)
    /\ IF page = "CreatePost"
       THEN UsePost
       ELSE /\ options = << >>
            /\ immediate = TRUE
            /\ cacheTime = DefaultCacheTime
            /\ optsStable = FALSE
    /\ mounted = "created"
    /\ data = NoData
    /\ loading = FALSE
    /\ error = NULL
    /\ dirty = FALSE
    /\ cache = [k \in Keys |-> NoEntry]
    /\ ctlRef = 0
    /\ aborted = {}
    /\ inv = << >>

\* handleChange(name, value), lines 209-216.
HandleChange(name, value) ==
    /\ caller = "page" => ~InputDisabled
    /\ <<name, value>> \in Inputs(page)
    /\ values' = Put(values, name, value)
    /\ errors' = IF Truthy(Get(errors, name))
                 THEN Put(errors, name, EmptyString)
                 ELSE errors
    /\ UNCHANGED <<auth, api, page, caller, touched, isSubmitting, submits, calls, refetched>>

\* handleBlur(name), lines 219-225.
HandleBlur(name) ==
    /\ caller = "page" => ~InputDisabled
    /\ name \in BlurFields(page)
    /\ touched' = Put(touched, name, TRUE)
    /\ LET e == ValidateField(ValidationSchema(page), name, Get(values, name), values)
       IN  errors' = IF e = TypeError THEN errors ELSE Put(errors, name, e)
    /\ UNCHANGED <<auth, api, page, caller, values, isSubmitting, submits, calls, refetched>>

\* A handleSubmit call: where it is and what its promise settled to.
Submit(phase, ret) == [phase |-> phase, ret |-> ret]

\* The fetch of the comment form's onSubmit, PostDetails.jsx lines 57-64.
PostComment(v, by) ==
    [url |-> PageUrl("PostDetails"), method |-> "POST",
     body |-> [content |-> v.content], response |-> "pending", by |-> by]

\* handleSubmit(e), lines 228-257, up to its await: every field of the
\* schema is touched, the form is validated, and onSubmit, if there is one
\* and the form is valid, is called.
HandleSubmit ==
    /\ caller = "page" => ~SubmitDisabled
    /\ Len(submits) < MaxSubmits
    /\ LET schema == ValidationSchema(page)
           newErrors == NewErrors(schema, values)
       IN  /\ touched' = [f \in DOMAIN schema |-> TRUE]
           /\ IF ValidationThrows(schema, values)
              THEN /\ submits' = Append(submits, Submit("returned", "rejected"))
                   /\ UNCHANGED <<auth, errors, isSubmitting, calls>>
              ELSE /\ errors' = newErrors
                   /\ IF ~IsValid(newErrors)
                      THEN /\ submits' = Append(submits, Submit("returned", "false"))
                           /\ UNCHANGED <<auth, isSubmitting, calls>>
                      ELSE IF OnSubmit(page) = "postComment"
                      THEN /\ isSubmitting' = TRUE
                           /\ calls' = Append(calls, PostComment(values, Len(submits) + 1))
                           /\ submits' = Append(submits, Submit("awaiting", "pending"))
                           /\ UNCHANGED auth
                      ELSE IF OnSubmit(page) = "register"
                      THEN /\ isSubmitting' = TRUE
                           /\ state' = AuthReducer(state, StartType("register"), NULL)
                           /\ authCalls' = Append(authCalls, AuthCall("register"))
                           /\ submits' = Append(submits, Submit("awaiting", "pending"))
                           /\ UNCHANGED <<localStorage, checked, calls>>
                      ELSE /\ submits' = Append(submits, Submit("returned", "true"))
                           /\ UNCHANGED <<auth, isSubmitting, calls>>
    /\ UNCHANGED <<api, page, caller, values, refetched>>

\* The fetch of call c is pending.
Pending(c) == c \in 1..Len(calls) /\ calls[c].response = "pending"

\* The fetch of call c resolves with an ok response: onSubmit calls
\* resetForm() (lines 260-265) and refetchComments() and returns, and
\* handleSubmit clears isSubmitting and returns true.
FetchOk(c) ==
    /\ Pending(c)
    /\ calls' = [calls EXCEPT ![c].response = "ok"]
    /\ values' = InitialValues(page)
    /\ errors' = EmptyObject
    /\ touched' = EmptyObject
    /\ refetched' = refetched + 1
    /\ isSubmitting' = FALSE
    /\ submits' = [submits EXCEPT ![calls[c].by].phase = "returned",
                                  ![calls[c].by].ret = "true"]
    /\ UNCHANGED <<auth, api, page, caller>>

\* The fetch of call c resolves with a response that is not ok: onSubmit
\* returns, and handleSubmit clears isSubmitting and returns true.
FetchNotOk(c) ==
    /\ Pending(c)
    /\ calls' = [calls EXCEPT ![c].response = "not ok"]
    /\ isSubmitting' = FALSE
    /\ submits' = [submits EXCEPT ![calls[c].by].phase = "returned",
                                  ![calls[c].by].ret = "true"]
    /\ UNCHANGED <<auth, api, page, caller, values, errors, touched, refetched>>

\* The fetch of call c rejects: onSubmit logs the error and returns, and
\* handleSubmit clears isSubmitting and returns true.
FetchRejects(c) ==
    /\ Pending(c)
    /\ calls' = [calls EXCEPT ![c].response = "rejected"]
    /\ isSubmitting' = FALSE
    /\ submits' = [submits EXCEPT ![calls[c].by].phase = "returned",
                                  ![calls[c].by].ret = "true"]
    /\ UNCHANGED <<auth, api, page, caller, values, errors, touched, refetched>>

NextForm ==
    \/ \E in \in Inputs(page) : HandleChange(in[1], in[2])
    \/ \E name \in BlurFields(page) : HandleBlur(name)
    \/ HandleSubmit
    \/ \E c \in 1..MaxSubmits : FetchOk(c)
    \/ \E c \in 1..MaxSubmits : FetchNotOk(c)
    \/ \E c \in 1..MaxSubmits : FetchRejects(c)

SpecForm == InitForm /\ [][NextForm]_vars

\* ------------------------------------------------------------- properties
\* The invocation that started last.
Last == inv[Len(inv)]
\* This step starts an invocation: New.
NewCall == Len(inv') = Len(inv) + 1
New == inv'[Len(inv')]
\* This step issues a network request.
IssuesRequest == NewCall /\ New.phase = "fetching"
\* This step is the return of invocation i.
Returns(i) == i \in 1..Len(inv) /\ inv[i].phase # "done" /\ inv'[i].phase = "done"
AllReturned == \A i \in 1..Len(inv) : inv[i].phase = "done"

\* C1: an execute call (by the view or by the effect) for a key whose cache
\* entry has an age strictly below cacheTime issues no network request,
\* returns {success: true, data: the cached payload} at once, and data is
\* that payload afterwards.
C1_FreshEntryIsServedFromCache ==
    [][\A k \in Keys :
         (/\ NewCall /\ New.key = k /\ New.origin \in {"execute", "effect"}
          /\ cache[k] # NoEntry /\ cache[k].age < cacheTime)
         => (/\ ~IssuesRequest
             /\ New.phase = "done" /\ New.outcome = "success"
             /\ New.ret = cache[k].data
             /\ data' = cache[k].data
             /\ cache' = cache)]_vars

\* A second call by the view was served from an entry of positive age.
C1_Witness ==
    /\ Len(inv) >= 2 /\ Last.origin = "execute" /\ Last.hit
    /\ inv[Len(inv) - 1].outcome = "success"
    /\ cache[Last.key].age = 1 /\ data = Last.ret /\ data # NoData

\* C2: of two overlapping execute calls only the later one is reflected in
\* the state: the return of a superseded invocation writes neither data,
\* loading, error nor the cache, and once both have returned the state is
\* the one the later call alone produces (loading false; on success its
\* payload and no error; on failure its error message).
C2_LaterCallAloneDecidesState ==
    [][/\ \A i \in 1..Len(inv) :
            (inv[i].superseded /\ Returns(i)) => UNCHANGED <<data, loading, error, cache>>
       /\ (/\ Len(inv') >= 2 /\ AllReturned' /\ inv'[Len(inv') - 1].superseded
           /\ Last'.origin \in {"execute", "refetch"}
           /\ Last'.outcome \in {"success", "error"})
          => (/\ loading' = FALSE
              /\ Last'.outcome = "success" => (data' = Last'.ret /\ error' = NULL)
              /\ Last'.outcome = "error" => error' = Last'.error)]_vars

\* C3: a cache-hit execute leaves the executor non-loading with error cleared.
C3_CacheHitLeavesNotLoading ==
    [][(NewCall /\ New.hit) => (loading' = FALSE /\ error' = NULL)]_vars

\* C4: an invocation ends cancelled only if a later execute call started
\* while it was pending or the owning view was torn down.
C4_CancelledOnlyIfSupersededOrTornDown ==
    \A i \in 1..Len(inv) :
        inv[i].outcome = "cancelled" => (inv[i].superseded \/ mounted = "unmounted")

\* C5: refetch removes the entry of the instance's default key and its
\* execute then issues a network request for that key.
C5_RefetchAlwaysFetches ==
    [][(NewCall /\ New.origin = "refetch")
       => (/\ IssuesRequest
           /\ New.key = CacheKey(url, options)
           /\ cache'[New.key] = NoEntry
           /\ \A k \in Keys \ {New.key} : cache'[k] = cache[k])]_vars

\* A refetch is pending although the entry of the default key was fresh.
C5_Witness ==
    /\ Len(inv) >= 2 /\ Last.origin = "refetch" /\ Last.phase = "fetching"
    /\ inv[Len(inv) - 1].outcome = "success" /\ cacheTime > 0
    /\ data # NoData /\ cache[Last.key] = NoEntry

\* C6: a response with a non-success status N makes the call return
\* {success: false}, sets error to a message containing N and loading to
\* false, and leaves data and the cache as they were.
C6_HttpErrorKeepsDataAndCache ==
    [][\A i \in 1..Len(inv) :
         (Returns(i) /\ inv'[i].status # 0 /\ ~(inv'[i].status \in 200..299))
         => (/\ inv'[i].outcome = "error"
             /\ \E n \in 1..Len(error') : error'[n] = ToString(inv'[i].status)
             /\ error' = inv'[i].error
             /\ loading' = FALSE
             /\ data' = data
             /\ cache' = cache)]_vars

\* A call failed with a status while data held an earlier payload.
C6_Witness ==
    /\ Len(inv) >= 2 /\ Last.outcome = "error" /\ Last.status = 404
    /\ data # NoData /\ ~loading /\ error = HttpErrorMessage(404)

C8_StaleEntryIsRefetchedAndReplaced ==
    [][/\ \A k \in Keys :
            (/\ NewCall /\ New.key = k
             /\ cache[k] # NoEntry /\ cache[k].age >= cacheTime)
            => (IssuesRequest /\ ~New.hit)
       /\ \A i \in 1..Len(inv) :
            (Returns(i) /\ inv'[i].outcome = "success")
            => (/\ cache'[inv[i].key] = [data |-> data', age |-> 0]
                /\ data' # cache[inv[i].key].data
                /\ inv'[i].ret = data')]_vars

\* A request is pending for a key whose entry is exactly cacheTime old.
C8_Witness ==
    /\ Len(inv) >= 2 /\ Last.phase = "fetching" /\ Last.origin = "execute"
    /\ cacheTime > 0 /\ cache[Last.key] # NoEntry /\ cache[Last.key].age = cacheTime

\* C9: the instance itself runs execute exactly once, on creation and only
\* when immediate: every later network request comes from a call of execute
\* or refetch by the view.
C9_EffectExecutesOnceOnCreation ==
    [][/\ (NewCall /\ New.origin = "effect") => (immediate /\ mounted = "created")
       /\ (mounted = "created" /\ mounted' = "mounted" /\ immediate)
          => (NewCall /\ New.key = CacheKey(url, options))]_vars

\* C10: after an invocation ended with an error the instance issues no
\* network request of its own, and error stays set until the view calls
\* execute or refetch.
C10_NoRetryAfterError ==
    [][(Len(inv) >= 1 /\ AllReturned /\ Last.outcome = "error" /\ mounted = "mounted")
       => (/\ IssuesRequest => New.origin \in {"execute", "refetch"}
           /\ ~NewCall => (error' = error /\ error # NULL))]_vars

\* C11: the cancelled return of an invocation changes nothing: data,
\* loading, error and the cache are after it what they were before it, and
\* the result it returns is {success: false, error: 'Request cancelled'}.
C11_CancelledReturnChangesNothing ==
    [][\A i \in 1..Len(inv) :
         (Returns(i) /\ inv'[i].outcome = "cancelled")
         => (/\ UNCHANGED <<data, loading, error, cache, dirty>>
             /\ i = Len(inv) => inv'[i].error = CancelledReason)]_vars

\* A request superseded while the state held a payload has returned cancelled.
C11_Witness ==
    /\ Len(inv) >= 3 /\ inv[2].outcome = "cancelled" /\ inv[2].superseded
    /\ data # NoData /\ error = NULL

\* C12: every pending invocation but the last one has been signalled to
\* cancel, so at most one request is in flight unsignalled: each execute
\* call, also one served from the cache, first aborts the pending request.
C12_AtMostOneLiveRequest ==
    /\ \A i \in 1..Len(inv) : (InFlight(i) /\ i < Len(inv)) => i \in aborted
    /\ Cardinality({i \in 1..Len(inv) : InFlight(i) /\ i \notin aborted}) <= 1

\* A call served from the cache has aborted the request that was pending.
C12_Witness ==
    /\ Len(inv) >= 2 /\ Last.hit /\ mounted = "mounted"
    /\ InFlight(Len(inv) - 1) /\ (Len(inv) - 1) \in aborted

\* C13: the successful return of an invocation (never a cancelled one)
\* leaves the cache mapping its key to the payload with the timestamp of
\* that moment, data equal to the payload, loading false and error null,
\* and returns {success: true, data: payload}.
C13_SuccessCachesAndPublishes ==
    [][\A i \in 1..Len(inv) :
         (Returns(i) /\ inv'[i].outcome = "success")
         => (/\ i \notin aborted /\ i = Len(inv)
             /\ inv'[i].ret # NoData
             /\ cache'[inv[i].key] = [data |-> inv'[i].ret, age |-> 0]
             /\ \A k \in Keys \ {inv[i].key} : cache'[k] = cache[k]
             /\ data' = inv'[i].ret
             /\ loading' = FALSE
             /\ error' = NULL)]_vars

\* A fetched payload is data and the cache entry of its key, just written.
C13_Witness ==
    /\ Len(inv) >= 1 /\ Last.outcome = "success" /\ ~Last.hit
    /\ data = Last.ret /\ ~loading /\ error = NULL
    /\ cache[Last.key] = [data |-> Last.ret, age |-> 0]

\* C14 as stated: an execute call that starts while a request for the same
\* key is pending issues no second network request.
C14_ConcurrentIdenticalCallsShareOneRequest ==
    [][\A i \in 1..Len(inv) :
         (NewCall /\ InFlight(i) /\ i \notin aborted /\ inv[i].key = New.key)
         => ~IssuesRequest]_vars

\* C14 as amended: an execute call that starts while a request for the same
\* key is pending aborts that request and issues one of its own, so of the
\* two requests issued at most one is left unsignalled.
C14_ConcurrentIdenticalCallAbortsAndRefetches ==
    [][\A i \in 1..Len(inv) :
         (NewCall /\ InFlight(i) /\ i \notin aborted /\ inv[i].key = New.key)
         => (/\ IssuesRequest
             /\ i \in aborted'
             /\ \A j \in 1..Len(inv) : InFlight(j) => j \in aborted')]_vars

\* Two requests for one key are pending, the earlier one aborted by a call
\* of the view.
C14_Witness ==
    /\ Len(inv) = 2 /\ InFlight(1) /\ InFlight(2) /\ inv[1].key = inv[2].key
    /\ Last.origin = "execute" /\ 1 \in aborted /\ 2 \notin aborted

\* C15 as stated: at most one of 'data is non-null', 'loading' and 'error
\* is non-null' holds.
C15_DataLoadingErrorMutuallyExclusive ==
    Cardinality({x \in {"data", "loading", "error"} :
                   \/ (x = "data" /\ data # NoData)
                   \/ (x = "loading" /\ loading)
                   \/ (x = "error" /\ error # NULL)}) <= 1

\* C15 as amended: loading and a non-null error never hold together, and
\* the start of a request sets loading, clears error and keeps data.
C15_LoadingAndErrorExclusive ==
    [][/\ ~(loading' /\ error' # NULL)
       /\ IssuesRequest => (loading' /\ error' = NULL /\ data' = data)]_vars

\* A request has started, and another has failed, with an earlier payload kept.
C15_Witness ==
    /\ data # NoData
    /\ \/ loading /\ Len(inv) >= 2 /\ Last.phase = "fetching"
       \/ error # NULL /\ Len(inv) >= 2 /\ Last.outcome = "error"

\* C16: every invocation returns a result object whatever the transport
\* does (success, a non-success status, a network failure, a cancellation),
\* and a failure other than a cancellation is recorded: error is the
\* message of the underlying error and loading is false.
C16_ExecuteNeverThrows ==
    [][\A i \in 1..Len(inv) :
         Returns(i)
         => (/\ inv'[i].outcome \in {"success", "error", "cancelled"}
             /\ inv'[i].outcome = "error"
                => (/\ i = Len(inv)
                    /\ error' = inv'[i].error
                    /\ loading' = FALSE
                    /\ inv'[i].error =
                         IF inv[i].phase = "parsing" THEN ParseErrorMessage
                         ELSE IF inv'[i].status = 0 THEN NetworkErrorMessage
                         ELSE HttpErrorMessage(inv'[i].status)))]_vars

\* A network failure has been recorded.
C16_Witness ==
    /\ Len(inv) >= 1 /\ Last.outcome = "error" /\ Last.status = 0
    /\ error = NetworkErrorMessage /\ ~loading

\* C17: while the view is mounted, loading is true only if an invocation is
\* pending whose request has not been signalled to cancel.
C17_LoadingOnlyWhileRequestLive ==
    (mounted = "mounted" /\ loading)
    => \E i \in 1..Len(inv) : InFlight(i) /\ i \notin aborted

\* C18: a cache entry is written only by the successful return of an
\* invocation for its key and removed only by refetch, which removes the
\* entry of the default key and no other; an execute call, and a failed or
\* cancelled return, leave the cache as it is.
C18_CacheWrittenBySuccessRemovedByRefetch ==
    [][/\ \A k \in Keys :
            /\ (cache[k] # NoEntry /\ cache'[k] = NoEntry)
               => (NewCall /\ New.origin = "refetch" /\ k = CacheKey(url, options))
            /\ (/\ cache'[k] # NoEntry
                /\ \/ cache[k] = NoEntry
                   \/ cache'[k].data # cache[k].data
                   \/ cache'[k].age < cache[k].age)
               => \E i \in 1..Len(inv) :
                     /\ Returns(i) /\ inv'[i].outcome = "success"
                     /\ inv[i].key = k /\ cache'[k].data = inv'[i].ret
       /\ (NewCall /\ New.origin # "refetch") => cache' = cache
       /\ \A i \in 1..Len(inv) :
            (Returns(i) /\ inv'[i].outcome # "success") => cache' = cache]_vars

\* A refetch has removed the default key's entry and left another key's.
C18_Witness ==
    /\ Len(inv) >= 1 /\ Last.origin = "refetch"
    /\ cache[CacheKey(url, options)] = NoEntry
    /\ \E k \in Keys : cache[k] # NoEntry

\* This step is the return of handleSubmit call i with true.
ReturnsTrue(i) ==
    /\ i \in 1..Len(submits') /\ submits'[i].ret = "true"
    /\ i \in 1..Len(submits) => submits[i].ret # "true"

\* C19: when a handleSubmit call of the create-post form has validated the
\* title, content and category and returns true, a POST request to
\* /api/posts has been issued, by fetch with the form's title, content,
\* category, tags and isPublished as its body or by the execute of the
\* page's usePost instance. (The inputs are disabled while a submission is
\* awaited, so the values at the return are the values submitted.)
C19_ValidCreatePostSubmitIssuesPost ==
    [][\A i \in 1..MaxSubmits :
         (page = "CreatePost" /\ ReturnsTrue(i))
         => \/ \E c \in 1..Len(calls') :
                 /\ calls'[c].url = PageUrl("CreatePost")
                 /\ calls'[c].method = "POST"
                 /\ calls'[c].body = [f \in {"title", "content", "category",
                                             "tags", "isPublished"} |-> values[f]]
            \/ \E j \in 1..Len(inv') :
                 inv'[j].key = CacheKey(PageUrl("CreatePost"), options)]_vars

\* C20: isValid is true exactly when no field has a non-empty error.
C20_IsValidIffNoErrorMessage ==
    page \in Pages => (isValid <=> \A f \in DOMAIN errors : errors[f] = EmptyString)

\* The error of the required rule of field f of the page's schema.
RequiredError(f) ==
    LET required == Get(ValidationSchema(page)[f], "required")
    IN  IF required = Bool(TRUE) THEN Str(<<f, " is required">>) ELSE required
\* Value v is empty: missing, false or a blank string.
IsEmpty(v) ==
    \/ v = Undefined
    \/ v = Bool(FALSE)
    \/ v.t = "string" /\ Trim(v.s) = << >>

\* C21: for every field of the page's schema with a required rule and the
\* value the form holds for it, whatever its type, validateField does not
\* throw and reports the required error exactly when the value is empty;
\* and no handleSubmit call is rejected by a throw of the validation.
C21_RequiredRuleTotalOnStoredValues ==
    page \in Pages =>
      /\ \A f \in DOMAIN ValidationSchema(page) :
           Truthy(Get(ValidationSchema(page)[f], "required"))
           => LET e == ValidateField(ValidationSchema(page), f, Get(values, f), values)
              IN  /\ e # TypeError
                  /\ e = RequiredError(f) <=> IsEmpty(Get(values, f))
      /\ \A i \in 1..Len(submits) : submits[i].ret # "rejected"

\* This step is a handleSubmit call.
SubmitCall == Len(submits') = Len(submits) + 1
\* Field f of the schema fails its validation against the current values.
FieldFails(f) ==
    LET e == ValidateField(ValidationSchema(page), f, Get(values, f), values)
    IN  e # TypeError /\ Truthy(e)
\* This step calls onSubmit.
CallsOnSubmit == Len(calls') > Len(calls) \/ Len(authCalls') > Len(authCalls)

\* C22: a handleSubmit call marks every field of the schema touched; it
\* calls onSubmit only if no field fails its validation; and if a field
\* fails, it returns false, calls no onSubmit and leaves isSubmitting alone.
C22_SubmitOnlyWhenValid ==
    [][SubmitCall =>
         /\ touched' = [f \in DOMAIN ValidationSchema(page) |-> TRUE]
         /\ CallsOnSubmit => \A f \in DOMAIN ValidationSchema(page) : ~FieldFails(f)
         /\ (\E f \in DOMAIN ValidationSchema(page) : FieldFails(f))
            => (/\ submits'[Len(submits')].ret = "false"
                /\ ~CallsOnSubmit
                /\ isSubmitting' = isSubmitting)]_vars

\* C23: isSubmitting is true exactly while a handleSubmit call awaits its
\* onSubmit.
C23_IsSubmittingIffAwaiting ==
    isSubmitting <=> \E i \in 1..Len(submits) : submits[i].phase = "awaiting"

\* The session is logged out: no user and no token, in the state and persisted.
LoggedOut ==
    /\ state.user = NULL /\ state.token = NULL /\ ~state.isAuthenticated
    /\ localStorage.token = NULL /\ localStorage.user = NULL
\* Call i is in flight.
AuthInFlight(i) == i \in 1..Len(authCalls) /\ authCalls[i].phase # "done"

\* C24: once logout has been called and as long as no login or register
\* call has been started after it, the session is logged out, whatever the
\* calls that were in flight at the logout complete with.
C24_LogoutHoldsAgainstEarlierCalls ==
    (Len(authCalls) > 0 /\ \A i \in 1..Len(authCalls) : authCalls[i].stale)
    => LoggedOut

\* C25: isLoading is true exactly when a login or register call is in flight.
C25_IsLoadingIffCallInFlight ==
    state.isLoading <=> \E i \in 1..Len(authCalls) : AuthInFlight(i)

\* C26: the token of the auth state equals the persisted token, both absent
\* or both the same value.
C26_StateTokenEqualsStoredToken ==
    state.token = localStorage.token

\* C27: isAuthenticated is true exactly when user is non-null, and then
\* token is non-null.
C27_AuthenticatedIffUser ==
    /\ state.isAuthenticated <=> state.user # NULL
    /\ state.isAuthenticated => state.token # NULL

\* A session restored from localStorage, one opened by a login after a
\* logout, and one kept through a failed login.
C27_Witness ==
    /\ checked /\ state.isAuthenticated /\ state.user \in Users
    /\ Len(authCalls) = 2 /\ authCalls[1].success /\ authCalls[1].stale
    /\ authCalls[2].phase = "done" /\ ~authCalls[2].success /\ ~authCalls[2].stale
    /\ state.error # NULL /\ state.token \in Tokens

====
